---- MODULE Spec2Model ----
(***************************************************************************)
(* A model of the PhysicsGlass driver (npm/src/PhysicsGlass.ts) and of the *)
(* WebGL helpers it calls (utils/webgl.ts).                                *)
(*                                                                         *)
(* Numbers.  Every optical parameter is a fixed-point number in            *)
(* thousandths: 0.15 is 150, 2.42 is 2420, 0.015 is 15.  The animation     *)
(* clock advances by 0.016 * speed, i.e. by 16 * speed millionths, and is  *)
(* kept in millionths.  NaN stands for the IEEE not-a-number that          *)
(* Math.min/Math.max return when an argument is undefined.                 *)
(*                                                                         *)
(* Sequential composition.  A handler calls other handlers (destroy calls  *)
(* stopAnimation, startAnimation calls render, ...), so each method is an  *)
(* operator from a "world" record (the instance's fields together with the *)
(* browser objects it touches) to the world after the call; an action      *)
(* applies one handler to the current world.                               *)
(***************************************************************************)
EXTENDS Integers, Sequences, FiniteSets, TLC

VARIABLES
    ctor,          \* "new" before `new PhysicsGlass`, "ok" once it returned, "threw" if it threw
    thrown,        \* the error code the constructor threw to its caller, or "none"
    config,        \* this.config
    uniforms,      \* this.uniforms
    canvas,        \* this.canvas: drawing-buffer width and height
    webglState,    \* this.webglState (live = FALSE is null)
    vertexBuffer,  \* this.vertexBuffer (0 is undefined)
    animationId,   \* this.animationId (0 is null)
    isDestroyed,   \* this.isDestroyed
    time,          \* this.time, in millionths
    mousePos,      \* this.mousePos
    cleanupSet,    \* this.cleanupContextLoss is defined
    initTask,      \* where the async init() stands
    setupErr,      \* the rejection init() is about to catch, or "none"
    loads,         \* image loads in flight (loadImageTexture promises not yet settled)
    gpu,           \* every GPU object created so far: kind, status, number of delete calls
    ctxLost,       \* the WebGL context is currently lost
    restorable,    \* the lost event was preventDefault()ed, so the browser will restore
    raf,           \* ids of the frame callbacks the browser still holds
    listeners,     \* event listeners currently registered
    errors,        \* error codes passed to config.onError so far
    readyCalls,    \* number of config.onReady calls
    frames,        \* number of frames render() has drawn
    cb,            \* the callbacks the last step invoked
    glCalls,       \* the WebGL calls the last step issued that change GPU state
    frag,          \* the fragment-shader invocation last observed: its pixel,
                   \* the values of its undefined operations, what it wrote
    last,          \* the last step: the operation and its arguments
    pausedAt,      \* history: frames drawn when stopAnimation last returned, -1 once
                   \* the host has called startAnimation since (or before any stop)
    lostRunning,   \* history: a frame was pending when the context was lost, and
                   \* the host has called neither stopAnimation nor destroy since
    calls,         \* number of public-method calls the host has made, counted only
                   \* in a run that starts with calls = 0 (-1: not counted)
    issued,        \* history: the argument of the setBackgroundTexture call the
                   \* host made last ("" before any)
    defaults,      \* the module's DEFAULT_CONFIG object as it is now: one object,
                   \* with its nested mouse, animation and performance objects,
                   \* for every instance of the page
    aliased,       \* the keys k for which this.config[k] is the very object
                   \* DEFAULT_CONFIG[k] (the caller's config had no such key)
    parked         \* the other PhysicsGlass instance of the page, every variable
                   \* above as it stands for that instance

vars == <<ctor, thrown, config, uniforms, canvas, webglState, vertexBuffer,
          animationId, isDestroyed, time, mousePos, cleanupSet, initTask,
          setupErr, loads, gpu, ctxLost, restorable, raf, listeners, errors,
          readyCalls, frames, cb, glCalls, frag, last, pausedAt, lostRunning,
          calls, issued, defaults, aliased, parked>>

----------------------------------------------------------------------------
(* Bounds of the model *)

MaxFrames == 3
MaxObjects == 7
MaxLoads == 2
MaxCalls == 3

----------------------------------------------------------------------------
(* JavaScript arithmetic *)

NaN == -999999

JsMin(a, b) == IF a = NaN \/ b = NaN THEN NaN ELSE IF a < b THEN a ELSE b

JsMax(a, b) == IF a = NaN \/ b = NaN THEN NaN ELSE IF a > b THEN a ELSE b

\* a comparison with NaN is false
JsLt(a, b) == a # NaN /\ b # NaN /\ a < b

JsLe(a, b) == a # NaN /\ b # NaN /\ a <= b

JsGt(a, b) == a # NaN /\ b # NaN /\ a > b

----------------------------------------------------------------------------
(* types.ts *)

GlassShapes == <<"sphere", "cylinder", "lens", "prism", "flat">>

BackgroundPatterns == <<"stripes", "grid", "circles", "texture">>

PresetNames == {"water", "crownGlass", "flintGlass", "diamond", "acrylic"}

GLASS_MATERIALS ==
    [n \in PresetNames |->
        CASE n = "water"      -> [refractionIndex |-> 1330, dispersion |-> 10]
          [] n = "crownGlass" -> [refractionIndex |-> 1520, dispersion |-> 20]
          [] n = "flintGlass" -> [refractionIndex |-> 1650, dispersion |-> 50]
          [] n = "diamond"    -> [refractionIndex |-> 2420, dispersion |-> 80]
          [] n = "acrylic"    -> [refractionIndex |-> 1490, dispersion |-> 15]]

\* GLASS_MATERIALS is an object literal, so GLASS_MATERIALS[name] also finds
\* what it inherits from Object.prototype: a function, which is truthy and
\* has neither a refractionIndex nor a dispersion property.
ObjectPrototypeKeys == {"toString", "constructor", "valueOf"}

\* GLASS_MATERIALS[material]: found is the truthiness of the result
MaterialLookup(material) ==
    IF material \in PresetNames
    THEN [found |-> TRUE, own |-> TRUE,
          refractionIndex |-> GLASS_MATERIALS[material].refractionIndex,
          dispersion |-> GLASS_MATERIALS[material].dispersion]
    ELSE IF material \in ObjectPrototypeKeys
    THEN [found |-> TRUE, own |-> FALSE, refractionIndex |-> NaN, dispersion |-> NaN]
    ELSE [found |-> FALSE, own |-> FALSE, refractionIndex |-> NaN, dispersion |-> NaN]

----------------------------------------------------------------------------
(* PhysicsGlass.ts: configuration *)

DEFAULT_CONFIG ==
    [shape |-> "sphere", size |-> 150, refractionIndex |-> 1500,
     dispersion |-> 30, thickness |-> 300,
     backgroundPattern |-> "stripes", backgroundTexture |-> "",
     mouse |-> [enabled |-> TRUE, followCursor |-> TRUE,
                centerX |-> 500, centerY |-> 500],
     animation |-> [enabled |-> TRUE, speed |-> 1000],
     performance |-> [pixelRatio |-> 1]]

\* the keys of DEFAULT_CONFIG whose values are objects
NestedKeys == {"mouse", "animation", "performance"}

\* { ...DEFAULT_CONFIG, ...config }: a shallow merge of the module's object d
\* as it is at the time of the call; cfg.given are the keys the caller's
\* object has, cfg.val their values
MergeConfig(d, cfg) ==
    [k \in DOMAIN d |-> IF k \in cfg.given THEN cfg.val[k] ELSE d[k]]

\* the nested objects the merge copied by reference from DEFAULT_CONFIG
SharedKeys(cfg) == NestedKeys \ cfg.given

\* a config c whose keys a hold DEFAULT_CONFIG's own objects, read while
\* DEFAULT_CONFIG is d
Mirror(c, d, a) == [k \in DOMAIN c |-> IF k \in a THEN d[k] ELSE c[k]]

\* DEFAULT_CONFIG after a handler left the instance as w: what the handler
\* wrote to a shared nested object of this.config it wrote to DEFAULT_CONFIG
WrittenDefaults(w) == Mirror(w.defaults, w.config, w.aliased)

\* the code of the error validateConfig throws, or "none"
validateConfig(c) ==
    IF JsLe(c.size, 0) \/ JsGt(c.size, 1000)
    THEN "INVALID_CONFIGURATION"
    ELSE IF JsLt(c.refractionIndex, 1000) \/ JsGt(c.refractionIndex, 3000)
    THEN "INVALID_CONFIGURATION"
    ELSE "none"

IndexOf(seq, x) ==
    IF \E i \in 1..Len(seq) : seq[i] = x
    THEN (CHOOSE i \in 1..Len(seq) : seq[i] = x) - 1
    ELSE -1

getShapeIndex(shape) == IndexOf(GlassShapes, shape)

getPatternIndex(pattern) == IndexOf(BackgroundPatterns, pattern)

----------------------------------------------------------------------------
(* The world a handler runs in, and the step that applies a handler *)

World ==
    [ctor |-> ctor, thrown |-> thrown, config |-> config, uniforms |-> uniforms,
     canvas |-> canvas, webglState |-> webglState, vertexBuffer |-> vertexBuffer,
     animationId |-> animationId, isDestroyed |-> isDestroyed, time |-> time,
     mousePos |-> mousePos, cleanupSet |-> cleanupSet, initTask |-> initTask,
     setupErr |-> setupErr, loads |-> loads, gpu |-> gpu, ctxLost |-> ctxLost,
     restorable |-> restorable, raf |-> raf, listeners |-> listeners,
     errors |-> errors, readyCalls |-> readyCalls, frames |-> frames,
     cb |-> cb, glCalls |-> glCalls, frag |-> frag, last |-> last, pausedAt |-> pausedAt, lostRunning |-> lostRunning,
     calls |-> calls, issued |-> issued, defaults |-> defaults, aliased |-> aliased]

\* the instance the step ran on is left as w, the other instance of the page
\* is other: its shared nested objects show what the step wrote to them
Put(w, other) ==
    /\ defaults' = WrittenDefaults(w)
    /\ aliased' = w.aliased
    /\ parked' = [other EXCEPT
                     !.config = Mirror(@, WrittenDefaults(w), other.aliased),
                     !.defaults = WrittenDefaults(w)]
    /\ ctor' = w.ctor
    /\ thrown' = w.thrown
    /\ config' = w.config
    /\ uniforms' = w.uniforms
    /\ canvas' = w.canvas
    /\ webglState' = w.webglState
    /\ vertexBuffer' = w.vertexBuffer
    /\ animationId' = w.animationId
    /\ isDestroyed' = w.isDestroyed
    /\ time' = w.time
    /\ mousePos' = w.mousePos
    /\ cleanupSet' = w.cleanupSet
    /\ initTask' = w.initTask
    /\ setupErr' = w.setupErr
    /\ loads' = w.loads
    /\ gpu' = w.gpu
    /\ ctxLost' = w.ctxLost
    /\ restorable' = w.restorable
    /\ raf' = w.raf
    /\ listeners' = w.listeners
    /\ errors' = w.errors
    /\ readyCalls' = w.readyCalls
    /\ frames' = w.frames
    /\ cb' = w.cb
    /\ glCalls' = w.glCalls
    /\ frag' = w.frag
    /\ last' = w.last
    /\ pausedAt' = w.pausedAt
    /\ lostRunning' = w.lostRunning
    /\ calls' = w.calls
    /\ issued' = w.issued

Become(w) == Put(w, parked)

\* the world at the start of a step: no callback invoked and no WebGL call
\* issued yet, the step named
Enter(op, num, str) ==
    [World EXCEPT !.cb = {}, !.glCalls = {},
                  !.last = [op |-> op, num |-> num, str |-> str]]

\* the world at the start of a public-method call by the host
HostEnter(op, num, str) ==
    [Enter(op, num, str) EXCEPT !.calls = IF @ < 0 THEN @ ELSE @ + 1]

NullState == [live |-> FALSE, program |-> 0, backgroundTexture |-> 0]

----------------------------------------------------------------------------
(* utils/webgl.ts: GPU objects *)

GlCreate ==
    [program |-> "createProgram", buffer |-> "createBuffer", texture |-> "createTexture"]

GlDelete ==
    [program |-> "deleteProgram", buffer |-> "deleteBuffer", texture |-> "deleteTexture"]

\* the handler issues the WebGL calls named
gl(w, names) == [w EXCEPT !.glCalls = @ \cup names]

\* gl.createProgram / gl.createBuffer / gl.createTexture: the new object's
\* handle is its index in gpu
CreateObject(w, kind) ==
    [w EXCEPT !.gpu = Append(@, [kind |-> kind, st |-> "live", dels |-> 0]),
              !.glCalls = @ \cup {GlCreate[kind]}]

NewHandle(w) == Len(w.gpu) + 1

\* gl.deleteProgram / gl.deleteBuffer / gl.deleteTexture
DeleteObject(w, id) ==
    [w EXCEPT !.gpu[id] = [@ EXCEPT !.dels = @ + 1,
                                    !.st = IF @ = "live" THEN "deleted" ELSE @],
              !.glCalls = @ \cup {GlDelete[w.gpu[id].kind]}]

\* config.onError(error)
onError(w, code) == [w EXCEPT !.errors = @ \cup {code}, !.cb = @ \cup {"onError"}]

----------------------------------------------------------------------------
(* PhysicsGlass.ts: the render loop *)

\* render without its test of webglState
render_NoStateTest(w) ==
    IF w.isDestroyed
    THEN w
    ELSE LET t == w.time + 16 * w.config.animation.speed
             w1 == gl([w EXCEPT !.time = t, !.uniforms.time = t, !.frames = @ + 1],
                      {"clear", "uniform", "bindTexture", "drawArrays"})
             id == w1.frames
         IN IF w1.config.animation.enabled
            THEN [w1 EXCEPT !.animationId = id, !.raf = @ \cup {id}]
            ELSE w1

render(w) ==
    IF w.isDestroyed \/ ~w.webglState.live
    THEN w
    ELSE LET t == w.time + 16 * w.config.animation.speed
             w1 == gl([w EXCEPT !.time = t, !.uniforms.time = t, !.frames = @ + 1],
                      {"clear", "uniform", "bindTexture", "drawArrays"})
             id == w1.frames
         IN IF w1.config.animation.enabled
            THEN [w1 EXCEPT !.animationId = id, !.raf = @ \cup {id}]
            ELSE w1

\* startAnimation without its test of animationId
startAnimation_NoIdTest(w) ==
    LET w1 == [w EXCEPT !.config.animation.enabled = TRUE]
    IN render(w1)

startAnimation(w) ==
    LET w1 == [w EXCEPT !.config.animation.enabled = TRUE]
    IN IF w1.animationId = 0 THEN render(w1) ELSE w1

\* stopAnimation that clears the flag and the id but leaves the frame
\* callback with the browser
stopAnimation_NoCancel(w) ==
    [w EXCEPT !.config.animation.enabled = FALSE, !.animationId = 0]

stopAnimation(w) ==
    LET w1 == [w EXCEPT !.config.animation.enabled = FALSE]
    IN IF w1.animationId # 0
       THEN [w1 EXCEPT !.raf = @ \ {w1.animationId}, !.animationId = 0]
       ELSE w1

setAnimationSpeed(w, speed) ==
    [w EXCEPT !.config.animation.speed = JsMax(0, JsMin(5000, speed))]

----------------------------------------------------------------------------
(* PhysicsGlass.ts: setters *)

setShape(w, shape) ==
    [w EXCEPT !.config.shape = shape,
              !.uniforms.glassShape = getShapeIndex(shape),
              !.cb = @ \cup {"onShapeChange"}]

\* setSize without its lower clamp
setSize_NoLowerClamp(w, size) ==
    LET v == JsMin(1000, size)
    IN [w EXCEPT !.config.size = v, !.uniforms.glassSize = v]

setSize(w, size) ==
    LET v == JsMax(10, JsMin(1000, size))
    IN [w EXCEPT !.config.size = v, !.uniforms.glassSize = v]

setRefractionIndex(w, index) ==
    LET v == JsMax(1000, JsMin(3000, index))
    IN [w EXCEPT !.config.refractionIndex = v, !.uniforms.refractionIndex = v]

setDispersion(w, dispersion) ==
    LET v == JsMax(0, JsMin(200, dispersion))
    IN [w EXCEPT !.config.dispersion = v, !.uniforms.dispersion = v]

setThickness(w, thickness) ==
    LET v == JsMax(100, JsMin(2000, thickness))
    IN [w EXCEPT !.config.thickness = v, !.uniforms.thickness = v]

setBackgroundPattern(w, pattern) ==
    [w EXCEPT !.config.backgroundPattern = pattern,
              !.uniforms.backgroundPattern = getPatternIndex(pattern)]

setMaterial(w, material) ==
    LET mat == MaterialLookup(material)
    IN IF ~mat.found
       THEN w
       ELSE LET w1 == setRefractionIndex(w, mat.refractionIndex)
                w2 == setDispersion(w1, mat.dispersion)
            IN [w2 EXCEPT !.cb = @ \cup {"onMaterialChange"}]

setMousePosition(w, x, y) ==
    LET px == JsMax(0, JsMin(1000, x))
        py == JsMax(0, JsMin(1000, y))
    IN [w EXCEPT !.mousePos = [x |-> px, y |-> py],
                 !.uniforms.mousePos = <<px, py>>]

enableMouseTracking(w, enabled) ==
    LET w1 == [w EXCEPT !.config.mouse.enabled = enabled]
    IN IF ~enabled
       THEN setMousePosition(w1, w1.config.mouse.centerX, w1.config.mouse.centerY)
       ELSE w1

----------------------------------------------------------------------------
(* PhysicsGlass.ts: setup *)

Urls == {"a.png", "b.png"}

Elements == {"<canvas>"}

\* getBoundingClientRect() of the canvas, as the host lays it out
Rects ==
    {[left |-> 0, top |-> 0, width |-> 300, height |-> 150],
     [left |-> 100, top |-> 50, width |-> 800, height |-> 600]}

\* setupCanvas that leaves the viewport as it is
setupCanvas_NoViewport(w, rect) ==
    LET cw == rect.width * w.config.performance.pixelRatio
        ch == rect.height * w.config.performance.pixelRatio
    IN [w EXCEPT !.canvas = [width |-> cw, height |-> ch],
                 !.uniforms.resolution = <<cw, ch>>]

setupCanvas(w, rect) ==
    LET cw == rect.width * w.config.performance.pixelRatio
        ch == rect.height * w.config.performance.pixelRatio
        w1 == [w EXCEPT !.canvas = [width |-> cw, height |-> ch],
                        !.uniforms.resolution = <<cw, ch>>]
    IN IF w1.webglState.live THEN gl(w1, {"viewport"}) ELSE w1

setupEventListeners(w) ==
    LET mouse == IF w.config.mouse.enabled /\ w.config.mouse.followCursor
                 THEN {"mousemove", "mouseleave"}
                 ELSE {}
    IN [w EXCEPT !.listeners = @ \cup mouse
                     \cup {"resize", "webglcontextlost", "webglcontextrestored"},
                 !.cleanupSet = TRUE]

\* setupWebGL up to its first suspension.  glOk: the shaders compile and link.
\* status is "done" (webglState assigned), "pending" (suspended in
\* loadImageTexture, the program handle kept in the load) or "failed" (threw).
setupWebGL(w, glOk, kind) ==
    IF ~glOk \/ w.ctxLost
    THEN [w |-> w, status |-> "failed", err |-> "SHADER_COMPILATION_FAILED"]
    ELSE LET p == NewHandle(w)
             w1 == gl(CreateObject(w, "program"), {"useProgram"})
             b == NewHandle(w1)
             w2 == gl([CreateObject(w1, "buffer") EXCEPT !.vertexBuffer = b],
                      {"bindBuffer", "bufferData", "enableVertexAttribArray",
                       "vertexAttribPointer"})
             src == w2.config.backgroundTexture
         IN IF src \in Urls
            THEN [w |-> [w2 EXCEPT !.loads =
                            Append(@, [kind |-> kind, program |-> p, src |-> src])],
                  status |-> "pending", err |-> "none"]
            ELSE LET t == NewHandle(w2)
                     w3 == gl(CreateObject(w2, "texture"),
                              {"bindTexture", "texImage2D", "texParameteri",
                               "viewport", "clearColor", "enable", "blendFunc"})
                 IN [w |-> [w3 EXCEPT !.webglState =
                                [live |-> TRUE, program |-> p, backgroundTexture |-> t]],
                     status |-> "done", err |-> "none"]

\* setupWebGL resumed by the image's load event: the texture is created and
\* webglState assigned
setupWebGLResume(w, program) ==
    LET t == NewHandle(w)
        w1 == gl(CreateObject(w, "texture"),
                 {"bindTexture", "texImage2D", "texParameteri",
                  "viewport", "clearColor", "enable", "blendFunc"})
    IN [w1 EXCEPT !.webglState =
            [live |-> TRUE, program |-> program, backgroundTexture |-> t]]

\* init() after `await this.setupWebGL()`
initResume(w, rect) ==
    LET w1 == setupEventListeners(setupCanvas(w, rect))
        w2 == IF w1.config.animation.enabled THEN startAnimation(w1) ELSE w1
    IN [w2 EXCEPT !.readyCalls = @ + 1, !.cb = @ \cup {"onReady"},
                  !.initTask = "done"]

\* init() when it catches: onError, then the rejection nobody awaits
initCatch(w, code) == [onError(w, code) EXCEPT !.initTask = "failed", !.setupErr = "none"]

\* init() as far as it runs inside the constructor
init(w, env) ==
    IF ~env.webgl
    THEN initCatch(w, "WEBGL_NOT_SUPPORTED")
    ELSE LET r == setupWebGL(w, env.shaders, "init")
         IN CASE r.status = "failed"  -> [r.w EXCEPT !.initTask = "cont", !.setupErr = r.err]
              [] r.status = "pending" -> [r.w EXCEPT !.initTask = "load"]
              [] r.status = "done"    -> [r.w EXCEPT !.initTask = "cont"]

constructor(w, cfg, env) ==
    IF ~env.canvasFound
    THEN [w EXCEPT !.ctor = "threw", !.thrown = "CANVAS_NOT_FOUND"]
    ELSE LET c == MergeConfig(w.defaults, cfg)
             v == validateConfig(c)
         IN IF v # "none"
            THEN [w EXCEPT !.config = c, !.aliased = SharedKeys(cfg),
                           !.ctor = "threw", !.thrown = v]
            ELSE init([w EXCEPT
                    !.ctor = "ok",
                    !.config = c,
                    !.aliased = SharedKeys(cfg),
                    !.uniforms =
                        [time |-> 0,
                         resolution |-> <<w.canvas.width, w.canvas.height>>,
                         mousePos |-> <<c.mouse.centerX, c.mouse.centerY>>,
                         refractionIndex |-> c.refractionIndex,
                         dispersion |-> c.dispersion,
                         thickness |-> c.thickness,
                         glassSize |-> c.size,
                         glassShape |-> getShapeIndex(c.shape),
                         backgroundPattern |-> getPatternIndex(c.backgroundPattern)]],
                    env)

----------------------------------------------------------------------------
(* PhysicsGlass.ts: event handlers *)

\* rect is getBoundingClientRect() at the time of the event; the quotients
\* are kept in thousandths
handleMouseMove(w, clientX, clientY, rect) ==
    IF ~w.config.mouse.followCursor
    THEN w
    ELSE LET x == ((clientX - rect.left) * 1000) \div rect.width
             y == 1000 - ((clientY - rect.top) * 1000) \div rect.height
         IN [w EXCEPT !.mousePos = [x |-> x, y |-> y],
                      !.uniforms.mousePos = <<x, y>>]

handleMouseLeave(w) ==
    [w EXCEPT !.mousePos = [x |-> w.config.mouse.centerX, y |-> w.config.mouse.centerY],
              !.uniforms.mousePos = <<w.config.mouse.centerX, w.config.mouse.centerY>>]

handleResize(w, rect) == setupCanvas(w, rect)

handleContextLoss(w) == stopAnimation(w)

\* the .then callback of handleContextRestored
restoredThen(w) ==
    IF w.config.animation.enabled THEN startAnimation(w) ELSE w

handleContextRestored(w, glOk) ==
    LET r == setupWebGL(w, glOk, "restore")
    IN IF r.status = "done" THEN restoredThen(r.w) ELSE r.w

----------------------------------------------------------------------------
(* PhysicsGlass.ts: background texture *)

\* setBackgroundTexture that releases the bound texture before it knows
\* whether the new one could be made
textureReady_ReleaseFirst(w, texture, made) ==
    LET old == w.webglState.backgroundTexture
        w0 == IF w.webglState.live /\ old # 0 THEN DeleteObject(w, old) ELSE w
    IN IF ~made
       THEN onError(w0, "TEXTURE_LOAD_FAILED")
       ELSE LET t == NewHandle(w0)
                w1 == gl(CreateObject(w0, "texture"),
                         {"bindTexture", "texImage2D", "texParameteri"})
            IN IF ~w1.webglState.live
               THEN onError(w1, "TypeError")
               ELSE [w1 EXCEPT !.webglState.backgroundTexture = t,
                               !.config.backgroundTexture = texture]

\* setBackgroundTexture after the texture exists (or failed to): made is
\* whether loadImageTexture / createTextureFromElement returned a texture
textureReady(w, texture, made) ==
    IF ~made
    THEN onError(w, "TEXTURE_LOAD_FAILED")
    ELSE LET t == NewHandle(w)
             w1 == gl(CreateObject(w, "texture"),
                      {"bindTexture", "texImage2D", "texParameteri"})
         IN IF ~w1.webglState.live
            THEN onError(w1, "TypeError")
            ELSE LET old == w1.webglState.backgroundTexture
                     w2 == IF old # 0 THEN DeleteObject(w1, old) ELSE w1
                 IN [w2 EXCEPT !.webglState.backgroundTexture = t,
                               !.config.backgroundTexture = texture]

setBackgroundTexture(w, texture) ==
    IF ~w.webglState.live
    THEN w
    ELSE IF texture \in Urls
    THEN [w EXCEPT !.loads = Append(@, [kind |-> "set", program |-> 0, src |-> texture])]
    ELSE textureReady(w, texture, ~w.ctxLost)

----------------------------------------------------------------------------
(* PhysicsGlass.ts: disposal *)

destroy(w) ==
    LET w1 == stopAnimation([w EXCEPT !.isDestroyed = TRUE])
        w2 == [w1 EXCEPT !.listeners =
                  (@ \ {"mousemove", "mouseleave", "resize"})
                  \ (IF w1.cleanupSet
                     THEN {"webglcontextlost", "webglcontextrestored"}
                     ELSE {})]
        st == w2.webglState
        w3 == IF st.live /\ st.backgroundTexture # 0
              THEN DeleteObject(w2, st.backgroundTexture) ELSE w2
        w4 == IF st.live /\ w3.vertexBuffer # 0
              THEN DeleteObject(w3, w3.vertexBuffer) ELSE w3
        w5 == IF st.live /\ st.program # 0
              THEN DeleteObject(w4, st.program) ELSE w4
    IN [w5 EXCEPT !.webglState = NullState]

----------------------------------------------------------------------------
(* The fragment shader (shaders/fragment.ts).  A float is a fixed-point      *)
(* number in thousandths; a vector is a tuple of them.  A square or a dot    *)
(* product that is only compared or passed to sqrt is kept exact, in         *)
(* millionths.  An operation whose result GLSL ES leaves undefined (0.0/0.0, *)
(* normalize of the zero vector, atan(0.0, 0.0)) takes its result from the   *)
(* argument undef.  noise() is fract(sin(x) * 43758.5453), whose value       *)
(* depends on the precision of the GPU's sin: the perturbation it yields is  *)
(* an argument too.  The colour of a hit pixel is not modelled; the          *)
(* coordinates at which it samples the background, and its alpha, are.       *)

One == 1000

Abs(a) == IF a < 0 THEN -a ELSE a

\* a / b rounded toward zero
Quot(a, b) ==
    IF (a >= 0) = (b > 0) THEN Abs(a) \div Abs(b) ELSE -(Abs(a) \div Abs(b))

FMul(a, b) == IF a = NaN \/ b = NaN THEN NaN ELSE Quot(a * b, One)

FDiv(a, b, undef) ==
    IF a = NaN \/ b = NaN THEN NaN
    ELSE IF b = 0 THEN undef
    ELSE Quot(a * One, b)

FAdd(a, b) == IF a = NaN \/ b = NaN THEN NaN ELSE a + b

FSub(a, b) == IF a = NaN \/ b = NaN THEN NaN ELSE a - b

RECURSIVE SqrtBetween(_, _, _)
SqrtBetween(n, lo, hi) ==
    IF lo >= hi
    THEN lo
    ELSE LET mid == (lo + hi + 1) \div 2
         IN IF mid * mid <= n THEN SqrtBetween(n, mid, hi) ELSE SqrtBetween(n, lo, mid - 1)

\* sqrt of a number of millionths, in thousandths
Sqrt2(n) == SqrtBetween(n, 0, 40000)

\* sqrt(a)
FSqrt(a) == IF a = NaN \/ a < 0 THEN NaN ELSE Sqrt2(a * One)

AnyNaN(v) == \E i \in DOMAIN v : v[i] = NaN

VAdd(u, v) == [i \in DOMAIN u |-> FAdd(u[i], v[i])]

VSub(u, v) == [i \in DOMAIN u |-> FSub(u[i], v[i])]

VScale(v, k) == [i \in DOMAIN v |-> FMul(v[i], k)]

VNeg(v) == [i \in DOMAIN v |-> IF v[i] = NaN THEN NaN ELSE -v[i]]

RECURSIVE SumSq(_, _)
SumSq(v, n) == IF n = 0 THEN 0 ELSE v[n] * v[n] + SumSq(v, n - 1)

\* dot(v, v), exact, in millionths
Dot2(v) == SumSq(v, Len(v))

RECURSIVE SumProd(_, _, _)
SumProd(u, v, n) == IF n = 0 THEN 0 ELSE u[n] * v[n] + SumProd(u, v, n - 1)

dot(u, v) == IF AnyNaN(u) \/ AnyNaN(v) THEN NaN ELSE Quot(SumProd(u, v, Len(u)), One)

length(v) == IF AnyNaN(v) THEN NaN ELSE Sqrt2(Dot2(v))

normalize(v, undef) ==
    IF AnyNaN(v) THEN [i \in DOMAIN v |-> NaN]
    ELSE IF length(v) = 0 THEN [i \in DOMAIN v |-> undef]
    ELSE [i \in DOMAIN v |-> Quot(v[i] * One, length(v))]

clamp(x, lo, hi) == IF x < lo THEN lo ELSE IF x > hi THEN hi ELSE x

\* t * t * (3 - 2 t) of t = clamp((x - edge0) / (edge1 - edge0), 0, 1), which
\* is what the compilers emit, also for edge0 > edge1
smoothstep(edge0, edge1, x) ==
    IF x = NaN THEN NaN
    ELSE LET t == clamp(Quot((x - edge0) * One, edge1 - edge0), 0, One)
         IN FMul(FMul(t, t), 3 * One - 2 * t)

reflect(incident, normal) ==
    VSub(incident, VScale(normal, FMul(2 * One, dot(normal, incident))))

\* intersectSphere without its test of the discriminant
intersectSphere_NoMiss(rayOrigin, rayDir, sphereCenter, radius) ==
    LET oc == VSub(rayOrigin, sphereCenter)
        b == dot(oc, rayDir)
        c == Dot2(oc) - radius * radius
        discriminant == b * b - c
        sqrt_discriminant == Sqrt2(discriminant)
    IN <<-b - sqrt_discriminant, -b + sqrt_discriminant>>

\* the two ray parameters, or (-1, -1)
intersectSphere(rayOrigin, rayDir, sphereCenter, radius) ==
    LET oc == VSub(rayOrigin, sphereCenter)
        b == dot(oc, rayDir)
        c == Dot2(oc) - radius * radius
        discriminant == b * b - c
    IN IF discriminant < 0
       THEN <<-One, -One>>
       ELSE LET sqrt_discriminant == Sqrt2(discriminant)
            IN <<-b - sqrt_discriminant, -b + sqrt_discriminant>>

intersectCylinder(rayOrigin, rayDir, cylinderCenter, radius, undef) ==
    LET ro == <<rayOrigin[1] - cylinderCenter[1], rayOrigin[2] - cylinderCenter[2]>>
        rd == <<rayDir[1], rayDir[2]>>
        a == dot(rd, rd)
        b == 2 * dot(ro, rd)
        c == Quot(Dot2(ro) - radius * radius, One)
        discriminant == FMul(b, b) - 4 * FMul(a, c)
    IN IF discriminant < 0
       THEN <<-One, -One>>
       ELSE LET sqrt_discriminant == FSqrt(discriminant)
            IN <<FDiv(-b - sqrt_discriminant, 2 * a, undef),
                 FDiv(-b + sqrt_discriminant, 2 * a, undef)>>

getSphereNormal(point, center, undef) == normalize(VSub(point, center), undef)

getCylinderNormal(point, center, undef) ==
    LET toPoint == VSub(point, center)
    IN normalize(<<toPoint[1], toPoint[2], 0>>, undef)

\* refract3D without its test for total internal reflection
refract3D_NoTest(incident, normal, eta) ==
    LET cosI == dot(VNeg(incident), normal)
        sinT2 == FMul(FMul(eta, eta), FSub(One, FMul(cosI, cosI)))
        cosT == FSqrt(FSub(One, sinT2))
    IN [sinT2 |-> sinT2, rooted |-> {FSub(One, sinT2)},
        dir |-> VAdd(VScale(incident, eta),
                     VScale(normal, FSub(FMul(eta, cosI), cosT)))]

\* dir is the vector returned; sinT2 and rooted (the arguments of the sqrt
\* calls that were evaluated) are kept for the properties
refract3D(incident, normal, eta) ==
    LET cosI == dot(VNeg(incident), normal)
        sinT2 == FMul(FMul(eta, eta), FSub(One, FMul(cosI, cosI)))
        cosT == FSqrt(FSub(One, sinT2))
    IN IF JsLe(One, sinT2)
       THEN [sinT2 |-> sinT2, rooted |-> {}, dir |-> reflect(incident, normal)]
       ELSE [sinT2 |-> sinT2, rooted |-> {FSub(One, sinT2)},
             dir |-> VAdd(VScale(incident, eta),
                          VScale(normal, FSub(FMul(eta, cosI), cosT)))]

\* sin(3 angle) and cos(3 angle) of angle = atan(y, x), by the triple-angle
\* formulas; atan(0, 0) is undefined
TripleAngle(x, y, undef) ==
    IF x = 0 /\ y = 0
    THEN IF undef = NaN THEN [sin |-> NaN, cos |-> NaN] ELSE [sin |-> 0, cos |-> One]
    ELSE LET d == Sqrt2(x * x + y * y)
             sn == Quot(y * One, d)
             cs == Quot(x * One, d)
         IN [sin |-> 3 * sn - 4 * FMul(FMul(sn, sn), sn),
             cos |-> 4 * FMul(FMul(cs, cs), cs) - 3 * cs]

\* hit is glassInfo.w = 1.0, normal is glassInfo.xyz
traceGlassShape(uv, mouseUV, shapeType, glassSize, perturbation, undef) ==
    LET rayOrigin == <<uv[1], uv[2], 2 * One>>
        rayDir == <<0, 0, -One>>
        glassCenter == <<mouseUV[1], mouseUV[2], 0>>
        centered == <<uv[1] - mouseUV[1], uv[2] - mouseUV[2]>>
        Miss == [hit |-> FALSE, normal |-> <<0, 0, 0>>]
        Hit(normal1) ==
            [hit |-> TRUE,
             normal |-> normalize(VAdd(normal1, <<perturbation[1], perturbation[2], 0>>),
                                  undef)]
    IN IF 2 * shapeType < 1
       THEN LET intersections == intersectSphere(rayOrigin, rayDir, glassCenter, glassSize)
                enterPoint == VAdd(rayOrigin, VScale(rayDir, intersections[1]))
            IN IF JsLt(intersections[1], 0)
               THEN Miss
               ELSE Hit(getSphereNormal(enterPoint, glassCenter, undef))
       ELSE IF 2 * shapeType < 3
       THEN LET intersections ==
                    intersectCylinder(rayOrigin, rayDir, glassCenter, glassSize, undef)
                enterPoint == VAdd(rayOrigin, VScale(rayDir, intersections[1]))
            IN IF JsLt(intersections[1], 0)
               THEN Miss
               ELSE Hit(getCylinderNormal(enterPoint, glassCenter, undef))
       ELSE IF 2 * shapeType < 5
       THEN LET lensRatio == 1500
                intersections ==
                    intersectSphere(rayOrigin, rayDir, glassCenter, FMul(glassSize, lensRatio))
                enterPoint == VAdd(rayOrigin, VScale(rayDir, intersections[1]))
                n == getSphereNormal(enterPoint, glassCenter, undef)
            IN IF JsLt(intersections[1], 0)
               THEN Miss
               ELSE Hit(normalize(<<n[1], n[2], FMul(n[3], 300)>>, undef))
       ELSE IF 2 * shapeType < 7
       THEN LET t == TripleAngle(centered[1], centered[2], undef)
                prismEffect == FAdd(FMul(t.sin, 300), 700)
                reach == FMul(glassSize, prismEffect)
            IN IF Dot2(centered) > glassSize * glassSize
               THEN Miss
               ELSE IF reach # NaN /\ (reach < 0 \/ Dot2(centered) > reach * reach)
               THEN Miss
               ELSE Hit(normalize(<<t.sin, t.cos, One>>, undef))
       ELSE IF Dot2(centered) > glassSize * glassSize
            THEN Miss
            ELSE Hit(<<0, 0, One>>)

\* etas that spread the channels by 0.01 more than the dispersion
ChannelEta_Spread(refractionIndex, dispersion, undef) ==
    LET redEta == FDiv(One, refractionIndex - dispersion - 10, undef)
        greenEta == FDiv(One, refractionIndex, undef)
        blueEta == FDiv(One, refractionIndex + dispersion + 10, undef)
    IN <<redEta, greenEta, blueEta>>

\* redEta, greenEta and blueEta of main()
ChannelEta(refractionIndex, dispersion, undef) ==
    LET redEta == FDiv(One, refractionIndex - dispersion, undef)
        greenEta == FDiv(One, refractionIndex, undef)
        blueEta == FDiv(One, refractionIndex + dispersion, undef)
    IN <<redEta, greenEta, blueEta>>

\* main() for the pixel at uv with the uniforms u: what it writes to
\* gl_FragColor and the values it computes on the way
main(uv, u, perturbation, undef) ==
    LET mouseUV == u.mousePos
        glassInfo == traceGlassShape(uv, mouseUV, u.glassShape, u.glassSize,
                                     perturbation, undef)
        normal == glassInfo.normal
        viewDir == <<0, 0, One>>
        eta == ChannelEta(u.refractionIndex, u.dispersion, undef)
        refracted == [ch \in 1..3 |-> refract3D(VNeg(viewDir), normal, eta[ch])]
        centerOffset == <<uv[1] - mouseUV[1], uv[2] - mouseUV[2]>>
        distFromCenter == length(centerOffset)
        curvatureEffect == One + FMul(FMul(distFromCenter, distFromCenter), 2 * One)
        distortionScale ==
            IF 2 * u.glassShape < 5
            THEN FMul(FMul(u.thickness, 300), curvatureEffect)
            ELSE FMul(u.thickness, 300)
        offset == [ch \in 1..3 |->
                     <<FMul(refracted[ch].dir[1], distortionScale),
                       FMul(refracted[ch].dir[2], distortionScale)>>]
        dist == length(centerOffset)
        glassMask == smoothstep(u.glassSize + 20, u.glassSize - 20, dist)
        edge == One - smoothstep(u.glassSize - 5, u.glassSize, dist)
        alpha == FMul(glassMask, 400) + FMul(edge, 600)
    IN IF ~glassInfo.hit
       THEN [hit |-> FALSE, transparent |-> TRUE, alpha |-> 0]
       ELSE [hit |-> TRUE, transparent |-> FALSE, alpha |-> alpha,
             normal |-> normal, eta |-> eta, refracted |-> refracted,
             distortionScale |-> distortionScale, offset |-> offset,
             sample |-> [ch \in 1..3 |-> VAdd(uv, offset[ch])]]

NoFragment == [uv |-> <<0, 0>>, perturbation |-> <<0, 0>>, undef |-> 0, out |-> <<>>]

----------------------------------------------------------------------------
(* The state before `new PhysicsGlass(canvas, config)`: the field           *)
(* initialisers of the class, a canvas of the HTML default size, nothing    *)
(* created, nothing registered.                                             *)

\* an instance not yet constructed
Unbuilt ==
    [ctor |-> "new",
     thrown |-> "none",
     config |-> DEFAULT_CONFIG,
     uniforms |-> [time |-> 0, resolution |-> <<300, 150>>, mousePos |-> <<500, 500>>,
                    refractionIndex |-> 1500, dispersion |-> 30, thickness |-> 300,
                    glassSize |-> 150, glassShape |-> 0, backgroundPattern |-> 0],
     canvas |-> [width |-> 300, height |-> 150],
     webglState |-> NullState,
     vertexBuffer |-> 0,
     animationId |-> 0,
     isDestroyed |-> FALSE,
     time |-> 0,
     mousePos |-> [x |-> 500, y |-> 500],
     cleanupSet |-> FALSE,
     initTask |-> "none",
     setupErr |-> "none",
     loads |-> <<>>,
     gpu |-> <<>>,
     ctxLost |-> FALSE,
     restorable |-> FALSE,
     raf |-> {},
     listeners |-> {},
     errors |-> {},
     readyCalls |-> 0,
     frames |-> 0,
     cb |-> {},
     glCalls |-> {},
     frag |-> NoFragment,
     last |-> [op |-> "none", num |-> 0, str |-> ""],
     pausedAt |-> -1,
     lostRunning |-> FALSE,
     calls |-> 0, issued |-> "", defaults |-> DEFAULT_CONFIG, aliased |-> {}]

Fresh ==
    /\ ctor = Unbuilt.ctor
    /\ thrown = Unbuilt.thrown
    /\ config = Unbuilt.config
    /\ uniforms = Unbuilt.uniforms
    /\ canvas = Unbuilt.canvas
    /\ webglState = Unbuilt.webglState
    /\ vertexBuffer = Unbuilt.vertexBuffer
    /\ animationId = Unbuilt.animationId
    /\ isDestroyed = Unbuilt.isDestroyed
    /\ time = Unbuilt.time
    /\ mousePos = Unbuilt.mousePos
    /\ cleanupSet = Unbuilt.cleanupSet
    /\ initTask = Unbuilt.initTask
    /\ setupErr = Unbuilt.setupErr
    /\ loads = Unbuilt.loads
    /\ gpu = Unbuilt.gpu
    /\ ctxLost = Unbuilt.ctxLost
    /\ restorable = Unbuilt.restorable
    /\ raf = Unbuilt.raf
    /\ listeners = Unbuilt.listeners
    /\ errors = Unbuilt.errors
    /\ readyCalls = Unbuilt.readyCalls
    /\ frames = Unbuilt.frames
    /\ cb = Unbuilt.cb
    /\ glCalls = Unbuilt.glCalls
    /\ frag = Unbuilt.frag
    /\ last = Unbuilt.last
    /\ pausedAt = Unbuilt.pausedAt
    /\ lostRunning = Unbuilt.lostRunning
    /\ issued = Unbuilt.issued
    /\ defaults = Unbuilt.defaults
    /\ aliased = Unbuilt.aliased
    /\ parked = Unbuilt

Init == Fresh /\ calls = -1

----------------------------------------------------------------------------
(* Steps.  The host calls the constructor and the public methods; the      *)
(* browser runs the microtask that resumes init(), fires frame callbacks,  *)
(* pointer, resize and context events and settles image loads.  A pending  *)
(* microtask runs before any browser event is dispatched.                  *)

\* the bounds count the calls and the frames of the whole page
HostMayCall == ctor = "ok" /\ calls + parked.calls < MaxCalls

BrowserMayDispatch == ctor = "ok" /\ initTask # "cont" /\ parked.initTask # "cont"

MayDraw == frames + parked.frames < MaxFrames

MayCreate(n) == Len(gpu) + n <= MaxObjects

New(cfg, env) ==
    /\ ctor = "new"
    /\ Become(constructor(Enter("new", 0, ""), cfg, env))

\* the microtask after the constructor returned: init() resumes or catches
InitMicrotask(rect) ==
    /\ ctor = "ok"
    /\ initTask = "cont"
    /\ LET w == Enter("initMicrotask", 0, "")
       IN Become(IF w.setupErr # "none"
                 THEN initCatch(w, w.setupErr)
                 ELSE initResume(w, rect))

CallSetShape(shape) ==
    /\ HostMayCall
    /\ Become(setShape(HostEnter("setShape", 0, shape), shape))

CallSetSize(v) ==
    /\ HostMayCall
    /\ Become(setSize(HostEnter("setSize", v, ""), v))

CallSetRefractionIndex(v) ==
    /\ HostMayCall
    /\ Become(setRefractionIndex(HostEnter("setRefractionIndex", v, ""), v))

CallSetDispersion(v) ==
    /\ HostMayCall
    /\ Become(setDispersion(HostEnter("setDispersion", v, ""), v))

CallSetThickness(v) ==
    /\ HostMayCall
    /\ Become(setThickness(HostEnter("setThickness", v, ""), v))

CallSetAnimationSpeed(v) ==
    /\ HostMayCall
    /\ Become(setAnimationSpeed(HostEnter("setAnimationSpeed", v, ""), v))

CallSetBackgroundPattern(pattern) ==
    /\ HostMayCall
    /\ Become(setBackgroundPattern(HostEnter("setBackgroundPattern", 0, pattern), pattern))

CallSetMaterial(name) ==
    /\ HostMayCall
    /\ Become(setMaterial(HostEnter("setMaterial", 0, name), name))

CallSetMousePosition(x, y) ==
    /\ HostMayCall
    /\ Become(setMousePosition(HostEnter("setMousePosition", x, ""), x, y))

CallEnableMouseTracking(enabled) ==
    /\ HostMayCall
    /\ Become(enableMouseTracking(
           HostEnter("enableMouseTracking", IF enabled THEN 1 ELSE 0, ""), enabled))

CallResize(rect) ==
    /\ HostMayCall
    /\ Become(handleResize(HostEnter("resize", rect.width, ""), rect))

CallStartAnimation ==
    /\ HostMayCall
    /\ MayDraw
    /\ Become(startAnimation(
           [HostEnter("startAnimation", 0, "") EXCEPT !.pausedAt = -1]))

CallStopAnimation ==
    /\ HostMayCall
    /\ LET w == stopAnimation(HostEnter("stopAnimation", 0, ""))
       IN Become([w EXCEPT !.pausedAt = w.frames, !.lostRunning = FALSE])

CallSetBackgroundTexture(texture) ==
    /\ HostMayCall
    /\ texture \in Urls => Len(loads) < MaxLoads
    /\ texture \notin Urls => MayCreate(1)
    /\ Become(setBackgroundTexture(
           [HostEnter("setBackgroundTexture", 0, texture) EXCEPT !.issued = texture],
           texture))

CallDestroy ==
    /\ HostMayCall
    /\ LET w == destroy(HostEnter("destroy", 0, ""))
       IN Become([w EXCEPT !.pausedAt = w.frames, !.lostRunning = FALSE])

\* the browser runs a frame callback it holds
OnFrame(id) ==
    /\ BrowserMayDispatch
    /\ MayDraw
    /\ id \in raf
    /\ Become(render([Enter("frame", id, "") EXCEPT !.raf = @ \ {id}]))

\* a mousemove event of the canvas: the pointer is over the canvas, which the
\* host lays out at rect
OnMouseMove(clientX, clientY, rect) ==
    /\ BrowserMayDispatch
    /\ "mousemove" \in listeners
    /\ rect.left <= clientX /\ clientX <= rect.left + rect.width
    /\ rect.top <= clientY /\ clientY <= rect.top + rect.height
    /\ Become(handleMouseMove(Enter("mousemove", clientX, ""), clientX, clientY, rect))

OnMouseLeave ==
    /\ BrowserMayDispatch
    /\ "mouseleave" \in listeners
    /\ Become(handleMouseLeave(Enter("mouseleave", 0, "")))

OnResize(rect) ==
    /\ BrowserMayDispatch
    /\ "resize" \in listeners
    /\ Become(handleResize(Enter("resize", rect.width, "event"), rect))

\* webglcontextlost: every object of the context is gone; the browser will
\* restore the context only if a listener called preventDefault()
OnContextLost ==
    /\ BrowserMayDispatch
    /\ Len(gpu) > 0
    /\ ~ctxLost
    /\ LET heard == "webglcontextlost" \in listeners
           w == [Enter("webglcontextlost", 0, IF heard THEN "handled" ELSE "")
                    EXCEPT !.ctxLost = TRUE,
                           !.restorable = heard,
                           !.gpu = [i \in DOMAIN @ |->
                                      [@[i] EXCEPT !.st = IF @ = "live" THEN "lost" ELSE @]]]
       IN Become(IF heard
                 THEN LET w1 == handleContextLoss(w)
                      IN [w1 EXCEPT !.lostRunning = (raf # {}),
                                    !.pausedAt = w1.frames]
                 ELSE w)

OnContextRestored(glOk) ==
    /\ BrowserMayDispatch
    /\ ctxLost
    /\ restorable
    /\ MayDraw
    /\ LET heard == "webglcontextrestored" \in listeners
           w0 == [World EXCEPT !.cb = {}, !.glCalls = {},
                               !.ctxLost = FALSE, !.restorable = FALSE]
           w == [w0 EXCEPT !.last =
                    [op |-> "webglcontextrestored", num |-> 0,
                     str |-> IF heard THEN setupWebGL(w0, glOk, "restore").status
                                      ELSE "unheard"]]
       IN /\ heard => MayCreate(3)
          /\ heard /\ config.backgroundTexture \in Urls => Len(loads) < MaxLoads
          /\ Become(IF heard THEN handleContextRestored(w, glOk) ELSE w)

\* an image load settles: ok is the load event, ~ok the error event
OnLoad(i, ok, rect) ==
    /\ BrowserMayDispatch
    /\ i \in DOMAIN loads
    /\ MayDraw
    /\ MayCreate(1)
    /\ LET l == loads[i]
           rest == [j \in 1..(Len(loads) - 1) |-> IF j < i THEN loads[j] ELSE loads[j + 1]]
           made == ok /\ ~ctxLost
           w == [Enter("load", IF made THEN 1 ELSE 0, l.kind) EXCEPT !.loads = rest]
       IN Become(
            CASE l.kind = "set" -> textureReady(w, l.src, made)
              [] l.kind = "init" ->
                    IF made
                    THEN initResume(setupWebGLResume(w, l.program), rect)
                    ELSE initCatch(w, "TEXTURE_LOAD_FAILED")
              [] l.kind = "restore" ->
                    IF made
                    THEN restoredThen(setupWebGLResume(w, l.program))
                    ELSE w)

\* gl.drawArrays runs the fragment shader for every pixel of the canvas with
\* the uniforms updateUniforms has just set; this step observes the pixel at uv
\* of the frame the last step drew
Fragment(uv, perturbation, undef) ==
    /\ ctor = "ok"
    /\ "drawArrays" \in glCalls
    /\ ~ctxLost
    /\ Become([Enter("fragment", 0, "") EXCEPT
                  !.frag = [uv |-> uv, perturbation |-> perturbation, undef |-> undef,
                            out |-> main(uv, uniforms, perturbation, undef)]])

\* the host turns to the other instance of the page: the steps that follow
\* are its constructor, its methods and the events of its canvas
Switch ==
    /\ ctor # "new"
    /\ Put([parked EXCEPT !.cb = {}, !.glCalls = {},
                          !.last = [op |-> "switch", num |-> 0, str |-> ""]],
           World)

----------------------------------------------------------------------------
(* Inputs *)

\* a constructor argument: the keys the caller gives, and their values
Cfg(given, val) == [given |-> given, val |-> val]

OkEnv == [canvasFound |-> TRUE, webgl |-> TRUE, shaders |-> TRUE]

Envs ==
    {OkEnv,
     [canvasFound |-> FALSE, webgl |-> TRUE, shaders |-> TRUE],
     [canvasFound |-> TRUE, webgl |-> FALSE, shaders |-> TRUE],
     [canvasFound |-> TRUE, webgl |-> TRUE, shaders |-> FALSE]}

\* where the pointer is on the screen when a mousemove event fires
PointerPoints == {[clientX |-> 90, clientY |-> 105], [clientX |-> 340, clientY |-> 470]}

HostRect == [left |-> 100, top |-> 50, width |-> 800, height |-> 600]

----------------------------------------------------------------------------
(* Specification Spec: the life of an instance.  Construction in every     *)
(* environment, with and without a texture URL; the animation controls,    *)
(* frames, texture replacement, context loss and restoration, disposal.    *)

LifeCfgs ==
    {Cfg({}, DEFAULT_CONFIG),
     Cfg({"backgroundTexture"}, [DEFAULT_CONFIG EXCEPT !.backgroundTexture = "a.png"]),
     Cfg({"size"}, [DEFAULT_CONFIG EXCEPT !.size = 2000])}

Next ==
    \/ \E cfg \in LifeCfgs, env \in Envs : New(cfg, env)
    \/ InitMicrotask(HostRect)
    \/ CallStartAnimation
    \/ CallStopAnimation
    \/ \E t \in {"b.png", "<canvas>"} : CallSetBackgroundTexture(t)
    \/ CallDestroy
    \/ \E id \in raf : OnFrame(id)
    \/ OnContextLost
    \/ \E glOk \in BOOLEAN : OnContextRestored(glOk)
    \/ \E i \in DOMAIN loads, ok \in BOOLEAN : OnLoad(i, ok, HostRect)

Spec == Init /\ [][Next]_vars

----------------------------------------------------------------------------
(* Specification SpecParams: the optical parameters.  Construction with    *)
(* in-range and out-of-range numbers, then any sequence of the numeric     *)
(* setters and of setMaterial.                                             *)

ParamCfgs ==
    {Cfg({}, DEFAULT_CONFIG),
     Cfg({"size"}, [DEFAULT_CONFIG EXCEPT !.size = 2000]),
     Cfg({"refractionIndex"}, [DEFAULT_CONFIG EXCEPT !.refractionIndex = 500]),
     Cfg({"dispersion"}, [DEFAULT_CONFIG EXCEPT !.dispersion = 1500]),
     Cfg({"thickness"}, [DEFAULT_CONFIG EXCEPT !.thickness = 5000]),
     Cfg({"animation"}, [DEFAULT_CONFIG EXCEPT !.animation = [enabled |-> TRUE, speed |-> 9000]])}

SizeInputs == {-1000, 500, 2000, NaN}

IndexInputs == {500, 2000, 10000, NaN}

DispersionInputs == {-100, 100, 500, NaN}

ThicknessInputs == {50, 1000, 5000}

SpeedInputs == {-1000, 2000, 9000}

MaterialInputs == PresetNames \cup {"ruby", "toString"}

NextParams ==
    \/ \E cfg \in ParamCfgs : New(cfg, OkEnv)
    \/ InitMicrotask(HostRect)
    \/ \E v \in SizeInputs : CallSetSize(v)
    \/ \E v \in IndexInputs : CallSetRefractionIndex(v)
    \/ \E v \in DispersionInputs : CallSetDispersion(v)
    \/ \E v \in ThicknessInputs : CallSetThickness(v)
    \/ \E v \in SpeedInputs : CallSetAnimationSpeed(v)
    \/ \E n \in MaterialInputs : CallSetMaterial(n)

SpecParams == Init /\ [][NextParams]_vars

----------------------------------------------------------------------------
(* Specification SpecApi: every public operation, the pointer and resize   *)
(* events and the frames, before and after destroy, on an instance whose   *)
(* setup succeeded and on one whose setup failed.                          *)

\* { enabled: true, followCursor: true }, the mouse option of the README's
\* React example: the object has no centerX and no centerY, which read as
\* undefined and reach Math.min, Math.max and gl.uniform2f as NaN
MouseWithoutCentre ==
    [enabled |-> TRUE, followCursor |-> TRUE, centerX |-> NaN, centerY |-> NaN]

ApiCfgs ==
    {Cfg({}, DEFAULT_CONFIG),
     Cfg({"animation"}, [DEFAULT_CONFIG EXCEPT !.animation = [enabled |-> TRUE, speed |-> -1000]]),
     Cfg({"mouse"}, [DEFAULT_CONFIG EXCEPT !.mouse = MouseWithoutCentre])}

NextApi ==
    \/ \E cfg \in ApiCfgs, env \in Envs : New(cfg, env)
    \/ InitMicrotask(HostRect)
    \/ CallSetShape("flat")
    \/ CallSetSize(500)
    \/ CallSetRefractionIndex(2000)
    \/ CallSetDispersion(100)
    \/ CallSetThickness(1000)
    \/ CallSetBackgroundPattern("grid")
    \/ CallSetBackgroundTexture("<canvas>")
    \/ CallSetMaterial("diamond")
    \/ CallSetMousePosition(300, 700)
    \/ CallEnableMouseTracking(FALSE)
    \/ CallStartAnimation
    \/ CallStopAnimation
    \/ CallSetAnimationSpeed(2000)
    \/ \E rect \in Rects : CallResize(rect)
    \/ CallDestroy
    \/ \E id \in raf : OnFrame(id)
    \/ \E rect \in Rects, p \in PointerPoints : OnMouseMove(p.clientX, p.clientY, rect)
    \/ OnMouseLeave
    \/ \E rect \in Rects : OnResize(rect)

InitApi == Fresh /\ calls = 0

SpecApi == InitApi /\ [][NextApi]_vars

----------------------------------------------------------------------------
(* Specification SpecShader: the pixels of the first frame.  Construction   *)
(* with every shape, two sizes, two centres and three pairs of refraction   *)
(* index and dispersion; then the fragment shader at a grid of pixels.      *)

ShaderCfg(shape, size, centre, optics) ==
    Cfg({"shape", "size", "refractionIndex", "dispersion", "mouse"},
        [DEFAULT_CONFIG EXCEPT
            !.shape = shape,
            !.size = size,
            !.refractionIndex = optics[1],
            !.dispersion = optics[2],
            !.mouse = [enabled |-> TRUE, followCursor |-> TRUE,
                       centerX |-> centre[1], centerY |-> centre[2]]])

ShaderSizes == {100, 200}

ShaderCentres == {<<500, 500>>, <<300, 700>>}

ShaderOptics == {<<1500, 30>>, <<1500, 0>>, <<1000, 200>>}

ShaderCfgs ==
    {ShaderCfg(GlassShapes[i], size, centre, optics) :
        i \in DOMAIN GlassShapes, size \in ShaderSizes,
        centre \in ShaderCentres, optics \in ShaderOptics}

PixelCoordinates == {0, 330, 500, 680, 750, 1000}

Perturbations == {<<0, 0>>, <<18, 18>>}

UndefinedResults == {NaN, 0, -One}

NextShader ==
    \/ \E cfg \in ShaderCfgs : New(cfg, OkEnv)
    \/ InitMicrotask(HostRect)
    \/ \E x \in PixelCoordinates, y \in PixelCoordinates,
          perturbation \in Perturbations, undef \in UndefinedResults :
            Fragment(<<x, y>>, perturbation, undef)

SpecShader == Init /\ [][NextShader]_vars

----------------------------------------------------------------------------
(* Specification SpecPage: two instances on one page, each on its own       *)
(* canvas, constructed with or without an animation option; the animation  *)
(* controls, enableMouseTracking, destroy and the frames of either.        *)

PageCfgs ==
    {Cfg({}, DEFAULT_CONFIG),
     Cfg({"animation"}, [DEFAULT_CONFIG EXCEPT !.animation = [enabled |-> TRUE, speed |-> 1000]])}

NextPage ==
    \/ \E cfg \in PageCfgs : New(cfg, OkEnv)
    \/ InitMicrotask(HostRect)
    \/ CallStartAnimation
    \/ CallStopAnimation
    \/ CallSetAnimationSpeed(2000)
    \/ CallEnableMouseTracking(FALSE)
    \/ CallDestroy
    \/ \E id \in raf : OnFrame(id)
    \/ Switch

SpecPage == InitApi /\ [][NextPage]_vars

----------------------------------------------------------------------------
(* Specification SpecTexture: texture replacement by URL when every image  *)
(* loads.  Construction with and without a texture URL, then calls of      *)
(* setBackgroundTexture with either URL, their loads settling in any       *)
(* order, and the frames in between.                                       *)

TextureCfgs ==
    {Cfg({}, DEFAULT_CONFIG),
     Cfg({"backgroundTexture"}, [DEFAULT_CONFIG EXCEPT !.backgroundTexture = "a.png"])}

NextTexture ==
    \/ \E cfg \in TextureCfgs : New(cfg, OkEnv)
    \/ InitMicrotask(HostRect)
    \/ \E t \in Urls : CallSetBackgroundTexture(t)
    \/ \E id \in raf : OnFrame(id)
    \/ \E i \in DOMAIN loads : OnLoad(i, TRUE, HostRect)

SpecTexture == InitApi /\ [][NextTexture]_vars

----------------------------------------------------------------------------
(* Properties *)

InRange(v, lo, hi) == v # NaN /\ lo <= v /\ v <= hi

\* C1: every numeric setter clamps.  After setSize(v) both config.size and
\* the glassSize uniform are min(1, max(0.01, v)); after setRefractionIndex(v)
\* both copies are min(3, max(1, v)); likewise dispersion in [0, 0.2],
\* thickness in [0.1, 2] and the animation speed in [0, 5].  From any state
\* setSize(-1) gives the state setSize(0.01) gives, and setRefractionIndex(10)
\* the state setRefractionIndex(3) gives.
C1_SettersClamp ==
    /\ last.op = "setSize" =>
          /\ config.size = JsMin(1000, JsMax(10, last.num))
          /\ uniforms.glassSize = JsMin(1000, JsMax(10, last.num))
    /\ last.op = "setRefractionIndex" =>
          /\ config.refractionIndex = JsMin(3000, JsMax(1000, last.num))
          /\ uniforms.refractionIndex = JsMin(3000, JsMax(1000, last.num))
    /\ last.op = "setDispersion" =>
          /\ config.dispersion = JsMin(200, JsMax(0, last.num))
          /\ uniforms.dispersion = JsMin(200, JsMax(0, last.num))
    /\ last.op = "setThickness" =>
          /\ config.thickness = JsMin(2000, JsMax(100, last.num))
          /\ uniforms.thickness = JsMin(2000, JsMax(100, last.num))
    /\ last.op = "setAnimationSpeed" =>
          config.animation.speed = JsMin(5000, JsMax(0, last.num))
    /\ ctor = "ok" =>
          /\ setSize(World, -1000) = setSize(World, 10)
          /\ setRefractionIndex(World, 10000) = setRefractionIndex(World, 3000)

\* an out-of-range size was passed to setSize and was clamped to 0.01
C1_Witness ==
    /\ last.op = "setSize"
    /\ last.num = -1000
    /\ config.size = 10
    /\ uniforms.glassSize = 10

\* C2: in every state of a constructed instance the values pushed to the
\* shader are in range (size in (0,1], refractionIndex in [1,3], dispersion in
\* [0,0.2], thickness in [0.1,2]), and the constructor never rejects a
\* configuration for an out-of-range number.
C2_ShaderValuesInRange ==
    /\ thrown # "INVALID_CONFIGURATION"
    /\ ctor = "ok" =>
          /\ InRange(uniforms.glassSize, 1, 1000)
          /\ InRange(uniforms.refractionIndex, 1000, 3000)
          /\ InRange(uniforms.dispersion, 0, 200)
          /\ InRange(uniforms.thickness, 100, 2000)

\* C3: a step setMaterial(name) with a preset name leaves exactly the table's
\* refractionIndex and dispersion in config and uniforms, and repeating the
\* same call changes neither config nor uniforms; with any other name it
\* changes neither and invokes no callback.
C3_SetMaterialExact ==
    [][last'.op = "setMaterial" =>
          IF last'.str \in PresetNames
          THEN /\ config'.refractionIndex = GLASS_MATERIALS[last'.str].refractionIndex
               /\ config'.dispersion = GLASS_MATERIALS[last'.str].dispersion
               /\ uniforms'.refractionIndex = GLASS_MATERIALS[last'.str].refractionIndex
               /\ uniforms'.dispersion = GLASS_MATERIALS[last'.str].dispersion
               /\ (last.op = "setMaterial" /\ last.str = last'.str) =>
                      (config' = config /\ uniforms' = uniforms)
          ELSE /\ config' = config
               /\ uniforms' = uniforms
               /\ cb' = {}]_vars

\* the part of C3 about the names of the preset table
SetMaterialPresetExact ==
    [][last'.op = "setMaterial" /\ last'.str \in PresetNames =>
          /\ config'.refractionIndex = GLASS_MATERIALS[last'.str].refractionIndex
          /\ config'.dispersion = GLASS_MATERIALS[last'.str].dispersion
          /\ uniforms'.refractionIndex = GLASS_MATERIALS[last'.str].refractionIndex
          /\ uniforms'.dispersion = GLASS_MATERIALS[last'.str].dispersion
          /\ (last.op = "setMaterial" /\ last.str = last'.str) =>
                 (config' = config /\ uniforms' = uniforms)]_vars

\* C4: once destroy has been called, no GPU object the instance created is
\* live, in that state and in every later one.
C4_ReleasedAfterDestroy ==
    isDestroyed => \A i \in DOMAIN gpu : gpu[i].st # "live"

\* C5: over the life of the instance, however often destroy is called, no
\* program, buffer or texture is passed to a gl.delete* call more than once.
C5_DeletedAtMostOnce ==
    \A i \in DOMAIN gpu : gpu[i].dels <= 1

PublicOps ==
    {"setShape", "setSize", "setRefractionIndex", "setDispersion", "setThickness",
     "setBackgroundPattern", "setBackgroundTexture", "setMaterial",
     "setMousePosition", "enableMouseTracking", "startAnimation", "stopAnimation",
     "setAnimationSpeed", "resize"}

\* C6: on a destroyed instance a public operation leaves the configuration,
\* the uniforms and the canvas (so also the animation flag) unchanged and
\* invokes no callback, and the instance stays destroyed.
C6_NoOpAfterDestroy ==
    [][isDestroyed /\ last'.op \in PublicOps =>
          /\ config' = config
          /\ uniforms' = uniforms
          /\ canvas' = canvas
          /\ cb' = {}
          /\ isDestroyed']_vars

\* C7: the time accumulator never decreases in a step, and while the
\* animation is stopped (from a stopAnimation to the next startAnimation of
\* the host) it does not change.
C7_TimeMonotonic ==
    [][/\ time' >= time
       /\ (pausedAt # -1 /\ pausedAt' # -1) => time' = time]_vars

\* C8: from the return of stopAnimation until the host calls startAnimation
\* again the browser holds no frame callback of the instance and no frame is
\* drawn.
C8_NoFrameWhilePaused ==
    pausedAt # -1 => (raf = {} /\ frames = pausedAt)

\* stopAnimation was called on a live instance that had drawn frames
C8_Witness ==
    /\ last.op = "stopAnimation"
    /\ pausedAt >= 1
    /\ webglState.live
    /\ ~isDestroyed
    /\ ~config.animation.enabled

\* the re-run setup of a context restoration has just completed
RestoreCompleted ==
    \/ last.op = "webglcontextrestored" /\ last.str = "done"
    \/ last.op = "load" /\ last.str = "restore" /\ last.num = 1

\* C9: if a frame was pending when the context was lost and the host called
\* neither stopAnimation nor destroy since, then when the setup re-run on
\* restoration completes the animation is running again: the flag is set and
\* a frame callback is pending.
C9_RunningAfterRestore ==
    (RestoreCompleted /\ lostRunning /\ ~isDestroyed) =>
        (config.animation.enabled /\ raf # {})

ConstructionErrors ==
    {"CANVAS_NOT_FOUND", "INVALID_CONFIGURATION", "WEBGL_NOT_SUPPORTED",
     "SHADER_COMPILATION_FAILED"}

\* C10: a construction-time failure is both thrown by the constructor and
\* passed to onError: what the constructor threw was also reported, and what
\* init reported for a missing context or a shader failure was also thrown.
C10_FailureThrownAndReported ==
    /\ thrown # "none" => thrown \in errors
    /\ \A e \in errors \cap ConstructionErrors : thrown = e

\* the step is a setBackgroundTexture whose texture could not be made: the
\* image's error event, or a load event or an element while the context is
\* lost (gl.createTexture returns null)
TextureLoadFails ==
    \/ last'.op = "load" /\ last'.str = "set" /\ last'.num = 0
    \/ /\ last'.op = "setBackgroundTexture"
       /\ last'.str \in Elements
       /\ webglState.live
       /\ ctxLost

\* C11: a step in which a setBackgroundTexture load fails invokes onError,
\* throws nothing, and leaves the instance as it was: webglState (so the bound
\* texture), every GPU object (so nothing released), the configuration and the
\* uniforms are unchanged, no frame is drawn, and no new load is started.
C11_FailedLoadKeepsState ==
    [][TextureLoadFails =>
          /\ cb' = {"onError"}
          /\ "TEXTURE_LOAD_FAILED" \in errors'
          /\ thrown' = thrown
          /\ webglState' = webglState
          /\ gpu' = gpu
          /\ config' = config
          /\ uniforms' = uniforms
          /\ frames' = frames
          /\ Len(loads') <= Len(loads)]_vars

\* a URL load of setBackgroundTexture has just failed on an instance whose
\* bound texture is live
C11_Witness ==
    /\ last.op = "load"
    /\ last.str = "set"
    /\ last.num = 0
    /\ cb = {"onError"}
    /\ webglState.live
    /\ gpu[webglState.backgroundTexture].st = "live"

LiveTextures == {i \in DOMAIN gpu : gpu[i].kind = "texture" /\ gpu[i].st = "live"}

\* C12: from the end of setup to disposal the only background texture that
\* can be live is the one webglState holds, which is the one a frame binds
\* (every texture that was replaced has been released), and the texture
\* webglState holds has not been released.  A lost context, in which no
\* texture is live, is not counted against the claim.
C12_OneLiveTexture ==
    (webglState.live /\ ~isDestroyed) =>
        /\ LiveTextures \subseteq {webglState.backgroundTexture}
        /\ gpu[webglState.backgroundTexture].st # "deleted"

\* C13: in every state of a constructed instance both coordinates of the
\* pointer position sent to the shader (and of the stored position) are in
\* [0, 1]: after the constructor, a pointer move, a pointer leave,
\* setMousePosition and enableMouseTracking(false).
C13_PointerInUnitSquare ==
    ctor = "ok" =>
        /\ InRange(uniforms.mousePos[1], 0, 1000)
        /\ InRange(uniforms.mousePos[2], 0, 1000)
        /\ InRange(mousePos.x, 0, 1000)
        /\ InRange(mousePos.y, 0, 1000)

\* positions on the canvas as fractions of its width (from the left) and of
\* its height (from the top), in thousandths
CanvasFractions ==
    {[x |-> 300, y |-> 700], [x |-> 500, y |-> 500], [x |-> 0, y |-> 1000]}

\* the screen position that lies at fraction f of the canvas laid out at rect
ScreenPoint(rect, f) ==
    [clientX |-> rect.left + (f.x * rect.width) \div 1000,
     clientY |-> rect.top + (f.y * rect.height) \div 1000]

\* C14: setMousePosition(x, y) stores the pointer position that a pointer
\* move at fraction x of the canvas width from the left and fraction y of its
\* height from the top stores, wherever the canvas is laid out.
C14_SetMousePositionAsPointerMove ==
    (ctor = "ok" /\ config.mouse.followCursor) =>
        \A rect \in Rects, f \in CanvasFractions :
            LET p == ScreenPoint(rect, f)
                set == setMousePosition(World, f.x, f.y)
                moved == handleMouseMove(World, p.clientX, p.clientY, rect)
            IN /\ set.mousePos = moved.mousePos
               /\ set.uniforms.mousePos = moved.uniforms.mousePos

\* the frame just observed was drawn with the README's sphere: size 0.2,
\* refractionIndex 1.5, dispersion 0.03, stripes, the pointer at (0.5, 0.5)
SphereScenario ==
    /\ last.op = "fragment"
    /\ config.shape = "sphere"
    /\ uniforms.glassShape = 0
    /\ uniforms.glassSize = 200
    /\ uniforms.refractionIndex = 1500
    /\ uniforms.dispersion = 30
    /\ uniforms.backgroundPattern = 0
    /\ uniforms.mousePos = <<500, 500>>

\* C15: in a frame of the sphere scenario the pixel at UV (0.5, 0.5) is hit
\* and gets an alpha greater than 0, and the pixel at UV (0, 0) gets
\* (0, 0, 0, 0).
C15_SphereCentreAndCorner ==
    SphereScenario =>
        /\ frag.uv = <<500, 500>> => (frag.out.hit /\ JsGt(frag.out.alpha, 0))
        /\ frag.uv = <<0, 0>> => (~frag.out.hit /\ frag.out.transparent)

\* the centre pixel of the sphere scenario was shaded
C15_Witness ==
    /\ SphereScenario
    /\ frag.uv = <<500, 500>>
    /\ frag.out.hit
    /\ frag.out.alpha = One

\* the planar distance of the observed pixel from the glass centre is
\* greater than r (both sides squared, so the comparison is exact)
FartherThan(r) ==
    LET centered == <<frag.uv[1] - uniforms.mousePos[1], frag.uv[2] - uniforms.mousePos[2]>>
    IN Dot2(centered) > r * r

\* C16: for the shapes flat, prism, lens and sphere a pixel whose planar
\* distance from the glass centre is greater than size is not hit and gets
\* (0, 0, 0, 0).
C16_OutsideSizeIsTransparent ==
    (/\ last.op = "fragment"
     /\ config.shape \in {"flat", "prism", "lens", "sphere"}
     /\ FartherThan(uniforms.glassSize)) =>
        (~frag.out.hit /\ frag.out.transparent)

\* C16 as the shader has it: for flat, prism and sphere a pixel farther from
\* the centre than size is not hit and gets (0, 0, 0, 0); for the lens,
\* which is intersected as a sphere of radius 1.5 size, this holds of a pixel
\* farther than 1.5 size, while every pixel within 1.5 size is hit.
C16_OutsideReachIsTransparent ==
    last.op = "fragment" =>
        /\ (config.shape \in {"flat", "prism", "sphere"} /\ FartherThan(uniforms.glassSize))
              => (~frag.out.hit /\ frag.out.transparent)
        /\ config.shape = "lens" =>
              IF FartherThan(FMul(uniforms.glassSize, 1500))
              THEN ~frag.out.hit /\ frag.out.transparent
              ELSE frag.out.hit

\* a pixel of a lens farther from the centre than 1.5 size was observed, and
\* it is transparent
C16_Witness ==
    /\ last.op = "fragment"
    /\ config.shape = "lens"
    /\ uniforms.glassSize = 200
    /\ frag.uv = <<680, 500>>
    /\ uniforms.mousePos = <<300, 700>>
    /\ FartherThan(300)
    /\ ~frag.out.hit
    /\ frag.out.transparent

\* C17: with dispersion 0 a hit pixel of any shape has three equal etas,
\* three equal refracted directions, three equal UV offsets and samples the
\* background three times at the same coordinate.
C17_NoFringingWithoutDispersion ==
    (last.op = "fragment" /\ uniforms.dispersion = 0 /\ frag.out.hit) =>
        \A ch \in {1, 3} :
            /\ frag.out.eta[ch] = frag.out.eta[2]
            /\ frag.out.refracted[ch].dir = frag.out.refracted[2].dir
            /\ frag.out.offset[ch] = frag.out.offset[2]
            /\ frag.out.sample[ch] = frag.out.sample[2]

\* a hit pixel drawn with dispersion 0 whose samples are displaced
C17_Witness ==
    /\ last.op = "fragment"
    /\ uniforms.dispersion = 0
    /\ frag.out.hit
    /\ ~AnyNaN(frag.out.offset[2])
    /\ frag.out.offset[2] # <<0, 0>>
    /\ frag.out.offset[1] = frag.out.offset[3]

\* with a dispersion greater than 0 the channels of some hit pixel are
\* sampled at different coordinates
FringingWithDispersion ==
    /\ last.op = "fragment"
    /\ uniforms.dispersion > 0
    /\ frag.out.hit
    /\ ~AnyNaN(frag.out.sample[1])
    /\ frag.out.sample[1] # frag.out.sample[3]

\* C18: for every channel of a hit pixel whose normal and eta are numbers,
\* refract3D returns reflect(incident, normal) and evaluates no sqrt when
\* eta^2 (1 - cosI^2) >= 1, and otherwise the argument of its sqrt is not
\* negative.
C18_RefractNeverRootsNegative ==
    (last.op = "fragment" /\ frag.out.hit) =>
        \A ch \in 1..3 :
            LET r == frag.out.refracted[ch]
            IN (~AnyNaN(frag.out.normal) /\ frag.out.eta[ch] # NaN) =>
                  IF r.sinT2 >= One
                  THEN /\ r.dir = reflect(<<0, 0, -One>>, frag.out.normal)
                       /\ r.rooted = {}
                  ELSE \A a \in r.rooted : a # NaN /\ a >= 0

\* the red channel of a hit pixel is totally reflected and the blue one is
\* refracted
C18_Witness ==
    /\ last.op = "fragment"
    /\ frag.out.hit
    /\ ~AnyNaN(frag.out.normal)
    /\ frag.out.refracted[1].sinT2 >= One
    /\ frag.out.refracted[1].dir = reflect(<<0, 0, -One>>, frag.out.normal)
    /\ frag.out.refracted[3].sinT2 < One
    /\ frag.out.refracted[3].rooted # {}

\* init() has caught a failure of the initial setup, or is about to
SetupFailed == ctor = "ok" /\ (initTask = "failed" \/ setupErr # "none")

\* C19: once the initial setup has failed (no WebGL context, or the shaders
\* do not compile or link) no frame is ever drawn and no frame callback is
\* ever requested, whatever the host calls afterwards.
C19_NoFrameAfterFailedSetup ==
    SetupFailed =>
        /\ frames = 0
        /\ raf = {}
        /\ animationId = 0
        /\ ~webglState.live
        /\ "drawArrays" \notin glCalls

\* startAnimation was called on an instance whose setup had failed, after
\* another public call
C19_Witness ==
    /\ initTask = "failed"
    /\ errors \cap {"WEBGL_NOT_SUPPORTED", "SHADER_COMPILATION_FAILED"} # {}
    /\ last.op = "startAnimation"
    /\ calls >= 2
    /\ config.animation.enabled
    /\ frames = 0

\* C20: a pointer-move, pointer-leave or resize step issues no WebGL call
\* that changes GPU state.
C20_HandlersIssueNoGlCall ==
    last.op \in {"mousemove", "mouseleave", "resize"} => glCalls = {}

\* C20 as the code has it: a pointer-move or pointer-leave step issues no
\* WebGL call; a resize step (the window's resize event or the public
\* resize()) stores the resolution and, when webglState is set, calls
\* gl.viewport and nothing else, so it draws no frame.
C20_OnlyResizeSetsViewport ==
    /\ last.op \in {"mousemove", "mouseleave"} => glCalls = {}
    /\ last.op = "resize" =>
          /\ glCalls = IF webglState.live THEN {"viewport"} ELSE {}
          /\ uniforms.resolution = <<canvas.width, canvas.height>>

\* the window's resize event reached a running instance, which set the
\* viewport
C20_Witness ==
    /\ last.op = "resize"
    /\ last.str = "event"
    /\ webglState.live
    /\ ~isDestroyed
    /\ glCalls = {"viewport"}

\* the distance of the observed pixel from the glass centre, as main() has it
DistFromCenter ==
    length(<<frag.uv[1] - uniforms.mousePos[1], frag.uv[2] - uniforms.mousePos[2]>>)

\* C21: the distortion scale of a hit pixel is thickness * 0.3 times the
\* curvature factor 1 + distFromCenter^2 * 2 when the shape is sphere or
\* lens, and thickness * 0.3 alone when it is cylinder, prism or flat.
C21_CurvatureForSphereAndLens ==
    (last.op = "fragment" /\ frag.out.hit) =>
        frag.out.distortionScale =
            IF config.shape \in {"sphere", "lens"}
            THEN FMul(FMul(uniforms.thickness, 300),
                      One + FMul(FMul(DistFromCenter, DistFromCenter), 2 * One))
            ELSE FMul(uniforms.thickness, 300)

\* C22: the alpha of a hit pixel is 0.4 * mask plus a rim term between 0 and
\* 0.6, and a hit pixel at a distance of at most size - 0.02 from the glass
\* centre, where the rim term is 0, gets the body alpha 0.4.
C22_BodyAlphaInsideGlass ==
    (last.op = "fragment" /\ frag.out.hit) =>
        /\ 0 <= frag.out.alpha
        /\ frag.out.alpha <= One
        /\ DistFromCenter <= uniforms.glassSize - 20 => frag.out.alpha = 400

\* the intersection parameters traceGlassShape gets for the observed pixel
\* of a cylinder when an undefined operation yields undef
CylinderParameters(undef) ==
    intersectCylinder(<<frag.uv[1], frag.uv[2], 2 * One>>, <<0, 0, -One>>,
                      <<uniforms.mousePos[1], uniforms.mousePos[2], 0>>,
                      uniforms.glassSize, undef)

\* C23: for the cylinder a pixel farther from the glass centre than size is
\* not hit, and for a pixel within size the intersection parameters are
\* numbers that no undefined operation (a division by zero) enters: they are
\* the same whatever such an operation yields.
C23_CylinderSolveDefined ==
    (last.op = "fragment" /\ config.shape = "cylinder") =>
        IF FartherThan(uniforms.glassSize)
        THEN ~frag.out.hit
        ELSE /\ ~AnyNaN(CylinderParameters(frag.undef))
             /\ \A undef \in UndefinedResults :
                    CylinderParameters(undef) = CylinderParameters(frag.undef)

\* C24: instances are isolated.  stopAnimation, destroy, setAnimationSpeed or
\* enableMouseTracking on one instance leaves the animation flag, the speed
\* and the mouse settings of the other instance as they were, and an instance
\* constructed without an animation option starts with animation enabled and,
\* when the host calls none of its methods, has drawn a frame once its init()
\* completed.
C24_InstancesIsolated ==
    [][/\ (/\ last'.op \in {"stopAnimation", "destroy", "setAnimationSpeed",
                            "enableMouseTracking"}
           /\ parked.ctor = "ok")
          => /\ parked'.config.animation = parked.config.animation
             /\ parked'.config.mouse = parked.config.mouse
       /\ (last'.op = "new" /\ ctor' = "ok" /\ "animation" \in aliased')
          => config'.animation.enabled
       /\ (/\ last'.op = "initMicrotask" /\ initTask' = "done"
           /\ "animation" \in aliased' /\ calls' = 0)
          => frames' >= 1]_vars

\* C25: when destroy ran before the asynchronous init() finished, the step
\* that settles init() leaves no mousemove, mouseleave, resize or context
\* listener registered and does not invoke onReady.
C25_NoListenerAfterEarlyDestroy ==
    [][(/\ isDestroyed
        /\ initTask \in {"cont", "load"}
        /\ initTask' \in {"done", "failed"})
       => /\ listeners' \cap {"mousemove", "mouseleave", "resize",
                              "webglcontextlost", "webglcontextrestored"} = {}
          /\ "onReady" \notin cb']_vars

\* C26: the browser holds at most one frame callback of the instance at any
\* time, so no second render chain is ever running.
C26_OneFrameCallbackPending == Cardinality(raf) <= 1

\* startAnimation was called while a frame callback was pending: it drew
\* nothing and the one callback is still the only one
C26_Witness ==
    /\ last.op = "startAnimation"
    /\ ~isDestroyed
    /\ glCalls = {}
    /\ Cardinality(raf) = 1

\* C27: when the loads of overlapping setBackgroundTexture calls all succeed,
\* then once the last of them has completed the bound texture and
\* config.backgroundTexture are those of the call the host made last,
\* whichever load finished first.
C27_LastIssuedTextureWins ==
    (/\ last.op = "load" /\ last.str = "set" /\ last.num = 1
     /\ \A i \in DOMAIN loads : loads[i].kind # "set")
    => /\ config.backgroundTexture = issued
       /\ "createTexture" \in glCalls
       /\ webglState.backgroundTexture = Len(gpu)

\* C28: while config.mouse.enabled is false (after enableMouseTracking(false))
\* a pointer-move event does not change the pointer position, neither
\* this.mousePos nor the mousePos uniform.
C28_NoTrackingWhileDisabled ==
    [][(~config.mouse.enabled /\ last'.op = "mousemove")
       => /\ mousePos' = mousePos
          /\ uniforms'.mousePos = uniforms.mousePos]_vars

\* C29: in every state of a constructed instance, whatever the accepted
\* constructor config and the setters called, the shader's refractionIndex
\* minus its dispersion is a number greater than 0, so that no eta divides
\* by zero or is negative.
C29_EtaDenominatorPositive ==
    ctor = "ok" =>
        /\ uniforms.refractionIndex # NaN
        /\ uniforms.dispersion # NaN
        /\ uniforms.refractionIndex - uniforms.dispersion > 0

\* the step was a failure of the setup that handleContextRestored re-runs on
\* a live instance: setupWebGL threw at once (the shaders did not compile),
\* or the load of its texture URL failed
RestoreSetupFailed ==
    /\ ~isDestroyed
    /\ \/ last.op = "webglcontextrestored" /\ last.str = "failed"
       \/ last.op = "load" /\ last.str = "restore" /\ last.num = 0

\* C30: a failure of the setup re-run after a context restoration is
\* reported through onError.
C30_RestoreFailureReported == RestoreSetupFailed => "onError" \in cb

====
